---------------------------- MODULE Spec2Model ----------------------------
(***************************************************************************)
(* A model of the three SampleFlow consumers                               *)
(*   MeanValue                (consumers/mean_value.h)                     *)
(*   Histogram                (consumers/histogram.h)                      *)
(*   Spurious_Autocovariance  (consumers/spurious_autocovariance_dim_n.h)  *)
(*                                                                         *)
(* Numbers of type double are modelled as exact rationals <<num, den>>     *)
(* with den > 0 and gcd(num, den) = 1, so that the recurrences are         *)
(* computed as the code computes them but without rounding.  Integer       *)
(* counters (types::sample_index, unsigned int) are modelled as naturals;  *)
(* where the code divides two counters the division is integer division.   *)
(***************************************************************************)
EXTENDS Integers, Sequences, FiniteSets, TLC

VARIABLES
  mean,     \* MeanValue object: [n_samples, current_mean]
  hist,     \* Histogram object: [min_value, max_value, n_subdivisions, bins, fault]
  acov,     \* Spurious_Autocovariance object
  ret,      \* sequential driver: <<v>> if the most recent call returned v, else <<>>
  stream,   \* sequential driver: the rows the most recent call wrote to its stream
  log,      \* history: the samples passed to consume(), in the order they were applied
  seen,     \* history: how many times consume() was called with each Histogram sample
  target,   \* concurrent driver: the accumulator each thread makes its calls on
  pc,       \* concurrent driver: each thread's position inside its current call
  arg,      \* concurrent driver: <<x>> if the thread's current call is consume(x), else <<>>
  tmp,      \* concurrent driver: each thread's local variables
  out,      \* concurrent driver: the value each thread's most recent get() returned
  calls,    \* concurrent driver: the number of calls each thread has started
  mutex,    \* each accumulator's std::mutex: its holder, or NoThread
  ref,      \* history: per accumulator, its completed consume calls applied one after the other
  snaps     \* history: per accumulator, the values get() has on the states ref went through

vars == <<mean, hist, acov, ret, stream, log, seen, target, pc, arg, tmp, out, calls, mutex, ref, snaps>>

-----------------------------------------------------------------------------
(* Exact arithmetic standing for double                                     *)

Abs(i) == IF i < 0 THEN -i ELSE i

RECURSIVE GCD(_, _)
GCD(a, b) == IF b = 0 THEN a ELSE GCD(b, a % b)

\* the canonical representative of n/d, d # 0
Norm(n, d) ==
  LET g == GCD(Abs(n), Abs(d))
      s == IF d < 0 THEN -1 ELSE 1
  IN  <<(s * n) \div g, (s * d) \div g>>

RInt(i) == <<i, 1>>
Zero == RInt(0)
RAdd(a, b) == Norm(a[1] * b[2] + b[1] * a[2], a[2] * b[2])
RSub(a, b) == Norm(a[1] * b[2] - b[1] * a[2], a[2] * b[2])
RMul(a, b) == Norm(a[1] * b[1], a[2] * b[2])
RDiv(a, b) == Norm(a[1] * b[2], a[2] * b[1])
RLt(a, b) == a[1] * b[2] < b[1] * a[2]
RLe(a, b) == a[1] * b[2] <= b[1] * a[2]
\* static_cast<int>(double): truncation toward zero
RTrunc(a) == IF a[1] >= 0 THEN a[1] \div a[2] ELSE -((-a[1]) \div a[2])

\* The values a double that was never written may hold.
Indeterminate == {Zero, RInt(7)}

RECURSIVE SumSeq(_)
SumSeq(s) == IF s = <<>> THEN 0 ELSE Head(s) + SumSeq(Tail(s))

-----------------------------------------------------------------------------
(* MeanValue<double>                                                       *)

\* The samples the drivers feed to MeanValue.
MeanSamples == {-3, 2, 4, 6}

\* MeanValue::MeanValue initialises n_samples only; current_mean, a double,
\* is left uninitialised and holds an arbitrary value.
MeanValue_init == [n_samples : {0}, current_mean : Indeterminate]

\* the counter write of either branch: n_samples = 1, or ++n_samples, given
\* the value ln read from n_samples
MeanValue_count(st, ln) == [st EXCEPT !.n_samples = IF ln = 0 THEN 1 ELSE ln + 1]

MeanValue_update_stale(st, sample, first) ==
  IF first
    THEN [st EXCEPT !.current_mean = RInt(sample)]
    ELSE [st EXCEPT !.current_mean =
            RAdd(st.current_mean,
                 RDiv(RSub(RInt(sample), st.current_mean), RInt(st.n_samples - 1)))]

\* the write of current_mean: the sample itself in the first branch,
\* otherwise  update = sample; update -= current_mean; update /= n_samples;
\* current_mean += update
MeanValue_update(st, sample, first) ==
  IF first
    THEN [st EXCEPT !.current_mean = RInt(sample)]
    ELSE [st EXCEPT !.current_mean =
            RAdd(st.current_mean,
                 RDiv(RSub(RInt(sample), st.current_mean), RInt(st.n_samples)))]

\* the body of MeanValue::consume, run under the lock
MeanValue_consume(st, sample) ==
  LET ln == st.n_samples
  IN  MeanValue_update(MeanValue_count(st, ln), sample, ln = 0)

MeanValue_get(st) == st.current_mean

-----------------------------------------------------------------------------
(* Histogram<InputType>, SubdivisionScheme::linear                         *)

\* The constructor arguments <<min_value, max_value, n_subdivisions>> the
\* drivers construct a Histogram with.
HistConfigs == {<<0, 100, 5>>, <<-50, 110, 3>>, <<10, 99, 1>>}

\* The samples the drivers feed to Histogram.
HistSamples == {-50, 0, 10, 40, 99, 100, 110}

\* Histogram::Histogram: bins (n_subdivisions) is a vector of zeros, indexed
\* from 0.  fault is not a member: it records that an assert of bin_number
\* failed or that an element outside bins was written.
Histogram_new(cfg) ==
  [min_value      |-> RInt(cfg[1]),
   max_value      |-> RInt(cfg[2]),
   n_subdivisions |-> cfg[3],
   bins           |-> [i \in 0 .. cfg[3] - 1 |-> 0],
   fault          |-> FALSE]

Histogram_discards_open(st, sample) ==
  RLe(RInt(sample), st.min_value) \/ RLt(st.max_value, RInt(sample))

Histogram_discards_lower(st, sample) ==
  RLt(RInt(sample), st.min_value)

\* if (sample<min_value || sample>max_value) return;
Histogram_discards(st, sample) ==
  RLt(RInt(sample), st.min_value) \/ RLt(st.max_value, RInt(sample))

\* assert (value>=min_value); assert (value<=max_value);
bin_number_asserts(st, value) ==
  RLe(st.min_value, value) /\ RLe(value, st.max_value)

Max2(a, b) == IF a < b THEN b ELSE a
Min2(a, b) == IF b < a THEN b ELSE a

bin_number_unparenthesised(st, value) ==
  Max2(0, Min2(st.n_subdivisions - 1,
               RTrunc(RDiv(RDiv(RSub(value, st.min_value),
                                RSub(st.max_value, st.min_value)),
                           RInt(st.n_subdivisions)))))

bin_number_unclamped(st, value) ==
  Max2(0, RTrunc(RDiv(RSub(value, st.min_value),
                      RDiv(RSub(st.max_value, st.min_value),
                           RInt(st.n_subdivisions)))))

\* std::max(0, std::min(static_cast<int>(n_subdivisions)-1,
\*   static_cast<int>((value-min_value)/((max_value-min_value)/n_subdivisions))))
bin_number(st, value) ==
  Max2(0, Min2(st.n_subdivisions - 1,
               RTrunc(RDiv(RSub(value, st.min_value),
                           RDiv(RSub(st.max_value, st.min_value),
                                RInt(st.n_subdivisions))))))

\* ++bins[bin], as the store of lb + 1 where lb was read from bins[bin]; a
\* bin outside the vector is undefined behaviour, recorded in fault
Histogram_increment(st, bin, lb) ==
  IF bin \in DOMAIN st.bins
    THEN [st EXCEPT !.bins[bin] = lb + 1]
    ELSE [st EXCEPT !.fault = TRUE]

\* the value bins[bin] holds, read for ++bins[bin]
Histogram_load(st, bin) == IF bin \in DOMAIN st.bins THEN st.bins[bin] ELSE 0

\* Histogram::consume
Histogram_consume(st, sample) ==
  IF Histogram_discards(st, sample)
    THEN st
    ELSE IF ~bin_number_asserts(st, RInt(sample))
           THEN [st EXCEPT !.fault = TRUE]
           ELSE LET bin == bin_number(st, RInt(sample))
                IN  Histogram_increment(st, bin, Histogram_load(st, bin))

Histogram_edges_same_index(st, bin) ==
  LET range == RSub(st.max_value, st.min_value)
      n     == RInt(st.n_subdivisions)
  IN  <<RAdd(st.min_value, RDiv(RMul(RInt(bin), range), n)),
        RAdd(st.min_value, RDiv(RMul(RInt(bin), range), n))>>

\* bin_min = min_value + bin*(max_value-min_value)/n_subdivisions;
\* bin_max = min_value + (bin+1)*(max_value-min_value)/n_subdivisions;
Histogram_edges(st, bin) ==
  LET range == RSub(st.max_value, st.min_value)
      n     == RInt(st.n_subdivisions)
  IN  <<RAdd(st.min_value, RDiv(RMul(RInt(bin), range), n)),
        RAdd(st.min_value, RDiv(RMul(RInt(bin + 1), range), n))>>

\* Histogram::get up to the lock: value_type return_value (n_subdivisions),
\* a vector indexed from 0, with the edges of every bin filled in
Histogram_table(st) ==
  [bin \in 0 .. st.n_subdivisions - 1 |->
     <<Histogram_edges(st, bin)[1], Histogram_edges(st, bin)[2], 0>>]

\* std::get<2>(return_value[bin]) = bins[bin];
Histogram_copy(st, rv, bin) == [rv EXCEPT ![bin][3] = st.bins[bin]]

RECURSIVE Histogram_copy_from(_, _, _)
\* for (unsigned int bin=0; bin<n_subdivisions; ++bin) from bin on
Histogram_copy_from(st, rv, bin) ==
  IF bin >= st.n_subdivisions
    THEN rv
    ELSE Histogram_copy_from(st, Histogram_copy(st, rv, bin), bin + 1)

\* Histogram::get
Histogram_get(st) == Histogram_copy_from(st, Histogram_table(st), 0)

Gnuplot_rows_clockwise(bin) ==
  << <<bin[1], 0>>, <<bin[1], bin[3]>>, <<bin[2], 0>>, <<bin[2], bin[3]>>, <<>> >>

\* the five lines written for one element bin of the histogram: a line
\*   output_stream << x << ' ' << y << '\n'   is the row <<x, y>>, the line
\*   output_stream << '\n'   is the row <<>>.  What is kept of a number is
\* its value, not the digits operator<< prints.
Gnuplot_rows(bin) ==
  << <<bin[1], 0>>, <<bin[1], bin[3]>>, <<bin[2], bin[3]>>, <<bin[2], 0>>, <<>> >>

RECURSIVE Gnuplot_from(_, _)
\* for (const auto &bin : histogram) from the element b on
Gnuplot_from(histogram, b) ==
  IF b \notin DOMAIN histogram THEN <<>>
  ELSE Gnuplot_rows(histogram[b]) \o Gnuplot_from(histogram, b + 1)

\* Histogram::write_gnuplot: const auto histogram = get(); then the loop
Histogram_write_gnuplot(st) == Gnuplot_from(Histogram_get(st), 0)

-----------------------------------------------------------------------------
(* The arithmetic of double, IEEE 754 binary64 with round to nearest, ties *)
(* to even, for finite values that are not negative.  A natural number is  *)
(* the sequence of its digits to the base 2^13, least significant first,   *)
(* the number 0 being <<>>, so that every intermediate value of a digit    *)
(* operation fits a 32-bit integer.                                        *)

\* 2^13: a product of two limbs and a carry stay below 2^31
LimbBits == 13
Base == 8192

\* the largest member of a non-empty set of integers
Top(S) == CHOOSE i \in S : \A j \in S : j <= i

\* the limbs of a without its most significant zeros
NatTrim(a) ==
  LET used == {i \in 1 .. Len(a) : a[i] # 0}
  IN  IF used = {} THEN <<>> ELSE SubSeq(a, 1, Top(used))

Limb(a, i) == IF i <= Len(a) THEN a[i] ELSE 0

\* the limbs of an int that is not negative
NatOfInt(i) ==
  NatTrim(<<i % Base, (i \div Base) % Base, i \div (Base * Base)>>)

\* the int with the limbs a, for a < 2^31
IntOfNat(a) == Limb(a, 1) + Base * Limb(a, 2) + Base * Base * Limb(a, 3)

\* -1, 0 or 1 as a < b, a = b or a > b
NatCmp(a, b) ==
  IF Len(a) # Len(b) THEN (IF Len(a) < Len(b) THEN -1 ELSE 1)
  ELSE LET differ == {i \in 1 .. Len(a) : a[i] # b[i]}
       IN  IF differ = {} THEN 0
           ELSE IF a[Top(differ)] < b[Top(differ)] THEN -1 ELSE 1

\* the carry into limb i of a + b: some lower limb overflows and every limb
\* between passes a carry on
NatCarry(a, b, i) ==
  IF \E j \in 1 .. i - 1 :
       /\ Limb(a, j) + Limb(b, j) >= Base
       /\ \A k \in j + 1 .. i - 1 : Limb(a, k) + Limb(b, k) = Base - 1
    THEN 1 ELSE 0

NatAdd(a, b) ==
  IF b = <<>> THEN NatTrim(a)
  ELSE IF a = <<>> THEN NatTrim(b)
  ELSE NatTrim([i \in 1 .. Max2(Len(a), Len(b)) + 1 |->
                  (Limb(a, i) + Limb(b, i) + NatCarry(a, b, i)) % Base])

\* the borrow from limb i of a - b
NatBorrow(a, b, i) ==
  IF \E j \in 1 .. i - 1 :
       /\ a[j] < Limb(b, j)
       /\ \A k \in j + 1 .. i - 1 : a[k] = Limb(b, k)
    THEN 1 ELSE 0

\* a - b for a >= b
NatSub(a, b) ==
  IF b = <<>> THEN a
  ELSE IF a = b THEN <<>>
  ELSE NatTrim([i \in 1 .. Len(a) |->
                  (a[i] - Limb(b, i) - NatBorrow(a, b, i) + Base) % Base])

\* a * k for 0 <= k <= Base: the low limbs of the products a[i] * k and,
\* one place up, their high limbs
NatMulSmall(a, k) ==
  IF k = 0 \/ a = <<>> THEN <<>>
  ELSE NatAdd([i \in 1 .. Len(a) |-> (a[i] * k) % Base],
              <<0>> \o [i \in 1 .. Len(a) |-> (a[i] * k) \div Base])

RECURSIVE NatMulFrom(_, _, _)
NatMulFrom(a, b, j) ==
  IF j > Len(b) THEN <<>>
  ELSE NatAdd(NatMulSmall(a, b[j]), <<0>> \o NatMulFrom(a, b, j + 1))

NatMul(a, b) ==
  IF Len(a) < Len(b) THEN NatMulFrom(b, a, 1) ELSE NatMulFrom(a, b, 1)

\* 2^n for n in 0 .. LimbBits
Pow2(n) == <<1, 2, 4, 8, 16, 32, 64, 128, 256, 512, 1024, 2048, 4096, 8192>>[n + 1]

\* a * 2^n
NatShl(a, n) ==
  IF n = 0 \/ a = <<>> THEN a
  ELSE [i \in 1 .. n \div LimbBits |-> 0] \o NatMulSmall(a, Pow2(n % LimbBits))

\* a \div 2^n
NatShr(a, n) ==
  IF n = 0 \/ a = <<>> THEN a
  ELSE LET d == n \div LimbBits
           s == n % LimbBits
       IN  NatTrim([i \in 1 .. Len(a) - d |->
                      a[i + d] \div Pow2(s)
                        + (Limb(a, i + d + 1) % Pow2(s)) * Pow2(LimbBits - s)])

\* the number of binary digits of a limb
BitLenInt(i) == CHOOSE n \in 0 .. LimbBits : i < Pow2(n) /\ (n = 0 \/ Pow2(n - 1) <= i)

\* the number of binary digits of a
BitLen(a) ==
  IF a = <<>> THEN 0 ELSE LimbBits * (Len(a) - 1) + BitLenInt(a[Len(a)])

\* t \div b for t < b * Base, the most significant limb of b being Base/2
\* or more: the quotient of the two leading limbs of t by the leading limb
\* of b is the digit or exceeds it by at most 2
NatDigit(t, b) ==
  LET n    == Len(b)
      qhat == Min2(Base - 1, (Limb(t, n + 1) * Base + Limb(t, n)) \div b[n])
  IN  IF NatCmp(NatMulSmall(b, qhat), t) <= 0 THEN qhat
      ELSE IF NatCmp(NatMulSmall(b, qhat - 1), t) <= 0 THEN qhat - 1
      ELSE qhat - 2

RECURSIVE NatDivModFrom(_, _, _, _, _)
\* long division of the limbs 1 .. i of a by b, with the remainder r of the
\* limbs above them carried in and their quotient q
NatDivModFrom(a, b, i, q, r) ==
  IF i <= 0 THEN <<q, r>>
  ELSE LET t == IF r = <<>> THEN NatOfInt(a[i]) ELSE <<a[i]>> \o r
       IN  IF NatCmp(t, b) < 0
             THEN NatDivModFrom(a, b, i - 1, <<0>> \o q, t)
             ELSE LET d == NatDigit(t, b)
                  IN  NatDivModFrom(a, b, i - 1, <<d>> \o q,
                                    NatSub(t, NatMulSmall(b, d)))

\* <<a \div b, a % b>> for b > 0: both are shifted to make the most
\* significant limb of the divisor Base/2 or more, and the limbs of a above
\* the length of b are the first remainder
NatDivMod(a, b) ==
  IF NatCmp(a, b) < 0 THEN <<<<>>, a>>
  ELSE LET s  == LimbBits - BitLenInt(b[Len(b)])
           an == NatShl(a, s)
           bn == NatShl(b, s)
           i  == Len(an) - Len(bn) + 1
           qr == NatDivModFrom(an, bn, i, <<>>, SubSeq(an, i + 1, Len(an)))
       IN  <<NatTrim(qr[1]), NatShr(qr[2], s)>>

\* A double is <<m, e>>, the number m * 2^e, with m a natural number below
\* 2^53 (2^53 itself when rounding carried into a new digit).
Precision == 53

\* round to nearest, ties to even: the double nearest to m * 2^e
DRound(m, e) ==
  IF m = <<>> THEN <<m, 0>>
  ELSE IF BitLen(m) <= Precision THEN <<m, e>>
  ELSE LET s    == BitLen(m) - Precision
           q    == NatShr(m, s)
           c    == NatCmp(NatSub(m, NatShl(q, s)), NatShl(<<1>>, s - 1))
           up   == c > 0 \/ (c = 0 /\ q[1] % 2 = 1)
       IN  <<IF up THEN NatAdd(q, <<1>>) ELSE q, e + s>>

\* the conversion of an unsigned int to double
DInt(i) == DRound(NatOfInt(i), 0)

\* -1, 0 or 1 as x < y, x = y or x > y
DCmp(x, y) ==
  IF x = y THEN 0
  ELSE LET e == Min2(x[2], y[2])
       IN  NatCmp(NatShl(x[1], x[2] - e), NatShl(y[1], y[2] - e))

DLt(x, y) == DCmp(x, y) < 0
DLe(x, y) == DCmp(x, y) <= 0

\* x + y
DAdd(x, y) ==
  IF y[1] = <<>> THEN x
  ELSE IF x[1] = <<>> THEN y
  ELSE LET e == Min2(x[2], y[2])
       IN  DRound(NatAdd(NatShl(x[1], x[2] - e), NatShl(y[1], y[2] - e)), e)

\* x - y for x >= y
DSub(x, y) ==
  IF y[1] = <<>> THEN x
  ELSE IF x = y THEN <<<<>>, 0>>
  ELSE LET e == Min2(x[2], y[2])
       IN  DRound(NatSub(NatShl(x[1], x[2] - e), NatShl(y[1], y[2] - e)), e)

\* x * y
DMul(x, y) ==
  IF x[1] = <<>> \/ y[1] = <<>> THEN <<<<>>, 0>>
  ELSE DRound(NatMul(x[1], y[1]), x[2] + y[2])

\* x / y for y > 0: a y whose significand is 1 only moves the exponent;
\* otherwise the quotient of the significands to 55 or more binary digits,
\* with one more digit that tells whether a remainder was left
DDiv(x, y) ==
  IF x[1] = <<>> THEN <<<<>>, 0>>
  ELSE IF y[1] = <<1>> THEN <<x[1], x[2] - y[2]>>
  ELSE LET k  == Max2(0, Precision + 2 + BitLen(y[1]) - BitLen(x[1]))
           qr == NatDivMod(NatShl(x[1], k), y[1])
           m  == NatAdd(NatShl(qr[1], 1), IF qr[2] = <<>> THEN <<>> ELSE <<1>>)
       IN  DRound(m, x[2] - y[2] - k - 1)

\* static_cast<int>(x) for 0 <= x < 2^31
DTrunc(x) ==
  IF x[2] >= 0 THEN IntOfNat(NatShl(x[1], x[2]))
  ELSE IntOfNat(NatShr(x[1], -x[2]))

\* the double a decimal literal with the value d[1] / d[2] denotes
Decimal(d) == DDiv(DInt(d[1]), DInt(d[2]))

-----------------------------------------------------------------------------
(* Histogram<double>, SubdivisionScheme::linear, its expressions evaluated *)
(* in the arithmetic of double                                             *)

\* Histogram::Histogram for the constructor arguments cfg, the first two
\* given as decimal literals
Histogram_double_new(cfg) ==
  [min_value      |-> Decimal(cfg[1]),
   max_value      |-> Decimal(cfg[2]),
   n_subdivisions |-> cfg[3],
   bins           |-> [i \in 0 .. cfg[3] - 1 |-> 0],
   fault          |-> FALSE]

\* if (sample<min_value || sample>max_value) return;
Histogram_double_discards(st, sample) ==
  DLt(sample, st.min_value) \/ DLt(st.max_value, sample)

\* std::max(0, std::min(static_cast<int>(n_subdivisions)-1,
\*   static_cast<int>((value-min_value)/((max_value-min_value)/n_subdivisions))))
bin_number_double(st, value) ==
  Max2(0, Min2(st.n_subdivisions - 1,
               DTrunc(DDiv(DSub(value, st.min_value),
                           DDiv(DSub(st.max_value, st.min_value),
                                DInt(st.n_subdivisions))))))

\* Histogram::consume; the asserts of bin_number repeat the range check
Histogram_double_consume(st, sample) ==
  IF Histogram_double_discards(st, sample)
    THEN st
    ELSE LET bin == bin_number_double(st, sample)
         IN  Histogram_increment(st, bin, Histogram_load(st, bin))

\* bin_min = min_value + bin*(max_value-min_value)/n_subdivisions;
\* bin_max = min_value + (bin+1)*(max_value-min_value)/n_subdivisions;
Histogram_double_edges(st, bin) ==
  LET range == DSub(st.max_value, st.min_value)
      n     == DInt(st.n_subdivisions)
  IN  <<DAdd(st.min_value, DDiv(DMul(DInt(bin), range), n)),
        DAdd(st.min_value, DDiv(DMul(DInt(bin + 1), range), n))>>

\* Histogram::get up to the lock
Histogram_double_table(st) ==
  [bin \in 0 .. st.n_subdivisions - 1 |->
     <<Histogram_double_edges(st, bin)[1], Histogram_double_edges(st, bin)[2], 0>>]

\* Histogram::get
Histogram_double_get(st) == Histogram_copy_from(st, Histogram_double_table(st), 0)

-----------------------------------------------------------------------------
(* Spurious_Autocovariance<std::valarray<double>>                          *)
(* A vector is a tuple, component j of the code being component j + 1; a   *)
(* matrix is a function from the row numbers 0 .. rows-1 to row tuples.    *)

\* double k=10;
K == 10

\* The samples the drivers feed to Spurious_Autocovariance.
AcovSamples == {<<1, 2>>, <<3, -1>>}

Lags == 0 .. K - 1
RVec(s) == [j \in 1 .. Len(s) |-> RInt(s[j])]
VAdd(u, v) == [j \in 1 .. Len(u) |-> RAdd(u[j], v[j])]
VSub(u, v) == [j \in 1 .. Len(u) |-> RSub(u[j], v[j])]
VDiv(u, n) == [j \in 1 .. Len(u) |-> RDiv(u[j], RInt(n))]

RECURSIVE DotFrom(_, _, _)
DotFrom(u, v, j) ==
  IF j > Len(u) THEN Zero ELSE RAdd(RMul(u[j], v[j]), DotFrom(u, v, j + 1))
\* the sum over j of u[j]*v[j]
Dot(u, v) == DotFrom(u, v, 1)

\* Spurious_Autocovariance::Spurious_Autocovariance: n_samples (0), the
\* valarray and the matrices empty.  junk is not a member: it is the value
\* found in matrix storage that resize() allocated and nothing wrote yet.
\* phase is not a member: it names the branch the last consume() ran.
Spurious_Autocovariance_init ==
  [n_samples : {0}, current_mean : {<<>>}, alpha : {<<>>}, beta : {<<>>},
   current_autocovariation : {<<>>}, past_sample : {<<>>},
   past_sample_replace : {<<>>}, junk : Indeterminate, phase : {"none"}]

\* a rows x cols matrix as resize() leaves it
Resized(st, cols) == [i \in Lags |-> [j \in 1 .. cols |-> st.junk]]

Acov_branch_after(st) ==
  IF st.n_samples = 0 THEN "first"
  ELSE IF st.n_samples + 1 < K THEN "warmup" ELSE "steady"

\* if (n_samples == 0) ... else if (n_samples < k) ... else ...
Acov_branch(st) ==
  IF st.n_samples = 0 THEN "first"
  ELSE IF st.n_samples < K THEN "warmup" ELSE "steady"

Acov_first_unzeroed(st, sample) ==
  [st EXCEPT
     !.n_samples = 1,
     !.current_autocovariation = [i \in Lags |-> <<st.junk>>],
     !.alpha = [i \in Lags |-> <<Zero>>],
     !.beta = [i \in Lags |-> [j \in 1 .. Len(sample) |-> Zero]],
     !.current_mean = RVec(sample),
     !.past_sample = [Resized(st, Len(sample)) EXCEPT ![0] = RVec(sample)],
     !.past_sample_replace = Resized(st, Len(sample)),
     !.phase = "first"]

\* the branch n_samples == 0
Acov_first(st, sample) ==
  [st EXCEPT
     !.n_samples = 1,
     !.current_autocovariation = [i \in Lags |-> <<Zero>>],
     !.alpha = [i \in Lags |-> <<Zero>>],
     !.beta = [i \in Lags |-> [j \in 1 .. Len(sample) |-> Zero]],
     !.current_mean = RVec(sample),
     !.past_sample = [Resized(st, Len(sample)) EXCEPT ![0] = RVec(sample)],
     !.past_sample_replace = Resized(st, Len(sample)),
     !.phase = "first"]

Acov_count_not_steady(st, ln, branch) ==
  [st EXCEPT !.n_samples = IF branch = "steady" THEN ln ELSE ln + 1,
             !.phase = branch]

\* ++n_samples, as the store of ln + 1 where ln was read from n_samples
Acov_count(st, ln, branch) == [st EXCEPT !.n_samples = ln + 1, !.phase = branch]

Acov_alphabeta_stale_count(st, sample, lags) ==
  LET x == RVec(sample)
      n == st.n_samples - 1
  IN  [st EXCEPT
         !.alpha = [i \in Lags |->
            IF i < lags
              THEN <<RAdd(st.alpha[i][1],
                          RDiv(RSub(Dot(x, st.past_sample[i]), st.alpha[i][1]),
                               RInt(n)))>>
              ELSE st.alpha[i]],
         !.beta = [i \in Lags |->
            IF i < lags
              THEN VAdd(st.beta[i],
                        VDiv(VSub(VAdd(x, st.past_sample[i]), st.beta[i]), n))
              ELSE st.beta[i]]]

Acov_alphabeta_unlagged(st, sample, lags) ==
  LET x == RVec(sample)
      n == st.n_samples
  IN  [st EXCEPT
         !.alpha = [i \in Lags |->
            IF i < lags
              THEN <<RAdd(st.alpha[i][1],
                          RDiv(RSub(Dot(x, x), st.alpha[i][1]), RInt(n)))>>
              ELSE st.alpha[i]],
         !.beta = [i \in Lags |->
            IF i < lags
              THEN VAdd(st.beta[i],
                        VDiv(VSub(VAdd(x, x), st.beta[i]), n))
              ELSE st.beta[i]]]

\* the loop over i < lags that updates alpha(i,0) and beta(i,.)
Acov_alphabeta(st, sample, lags) ==
  LET x == RVec(sample)
      n == st.n_samples
  IN  [st EXCEPT
         !.alpha = [i \in Lags |->
            IF i < lags
              THEN <<RAdd(st.alpha[i][1],
                          RDiv(RSub(Dot(x, st.past_sample[i]), st.alpha[i][1]),
                               RInt(n)))>>
              ELSE st.alpha[i]],
         !.beta = [i \in Lags |->
            IF i < lags
              THEN VAdd(st.beta[i],
                        VDiv(VSub(VAdd(x, st.past_sample[i]), st.beta[i]), n))
              ELSE st.beta[i]]]

Acov_shift_in_place(st, sample, rows) ==
  LET repl == [i \in Lags |->
                 IF i = 0 THEN RVec(sample)
                 ELSE IF i - 1 < rows THEN st.past_sample[i]
                 ELSE st.past_sample_replace[i]]
  IN  [st EXCEPT !.past_sample_replace = repl, !.past_sample = repl]

Acov_shift_keeps_oldest(st, sample, rows) ==
  LET repl == [i \in 0 .. Cardinality(DOMAIN st.past_sample) |->
                 IF i = 0 THEN RVec(sample) ELSE st.past_sample[i - 1]]
  IN  [st EXCEPT !.past_sample_replace = repl, !.past_sample = repl]

\* past_sample_replace(i+1,.) = past_sample(i,.) for i < rows;
\* past_sample_replace(0,.) = sample; past_sample = past_sample_replace
Acov_shift(st, sample, rows) ==
  LET repl == [i \in Lags |->
                 IF i = 0 THEN RVec(sample)
                 ELSE IF i - 1 < rows THEN st.past_sample[i - 1]
                 ELSE st.past_sample_replace[i]]
  IN  [st EXCEPT !.past_sample_replace = repl, !.past_sample = repl]

Acov_mean_stale_count(st, sample) ==
  [st EXCEPT !.current_mean =
     VAdd(st.current_mean,
          VDiv(VSub(RVec(sample), st.current_mean), st.n_samples - 1))]

\* update = sample; update -= current_mean; update /= n_samples;
\* current_mean += update
Acov_mean(st, sample) ==
  [st EXCEPT !.current_mean =
     VAdd(st.current_mean,
          VDiv(VSub(RVec(sample), st.current_mean), st.n_samples))]

\* current_autocovariation(i,0) for one i; (n_samples-1)/(n_samples) divides
\* two values of types::sample_index
Acov_recompute(st, i) ==
  [st EXCEPT !.current_autocovariation[i] =
     <<RAdd(RSub(st.alpha[i][1], Dot(st.current_mean, st.beta[i])),
            RMul(RInt((st.n_samples - 1) \div st.n_samples),
                 Dot(st.current_mean, st.current_mean)))>>]

RECURSIVE Acov_recompute_from(_, _)
\* for (unsigned int i=0; i<k; ++i) from i on
Acov_recompute_from(st, i) ==
  IF i >= K THEN st ELSE Acov_recompute_from(Acov_recompute(st, i), i + 1)

Acov_warmup_exports(st, sample) ==
  LET s1 == Acov_count(st, st.n_samples, "warmup")
      s2 == Acov_alphabeta(s1, sample, s1.n_samples - 1)
      s3 == Acov_shift(s2, sample, s2.n_samples - 1)
  IN  Acov_recompute_from(Acov_mean(s3, sample), 0)

\* the branch n_samples < k
Acov_warmup(st, sample) ==
  LET s1 == Acov_count(st, st.n_samples, "warmup")
      s2 == Acov_alphabeta(s1, sample, s1.n_samples - 1)
      s3 == Acov_shift(s2, sample, s2.n_samples - 1)
  IN  Acov_mean(s3, sample)

\* the last branch
Acov_steady(st, sample) ==
  LET s1 == Acov_count(st, st.n_samples, "steady")
      s2 == Acov_alphabeta(s1, sample, K)
      s3 == Acov_shift(s2, sample, K - 1)
      s4 == Acov_mean(s3, sample)
  IN  Acov_recompute_from(s4, 0)

\* the body of Spurious_Autocovariance::consume, run under the lock
Spurious_Autocovariance_consume(st, sample) ==
  CASE Acov_branch(st) = "first"  -> Acov_first(st, sample)
    [] Acov_branch(st) = "warmup" -> Acov_warmup(st, sample)
    [] OTHER                      -> Acov_steady(st, sample)

Spurious_Autocovariance_get(st) == st.current_autocovariation

-----------------------------------------------------------------------------
(* MeanValue<std::valarray<double>>: the same template, its arithmetic the *)
(* element-wise operators of std::valarray                                 *)

\* MeanValue::MeanValue initialises n_samples only; current_mean is a
\* default-constructed valarray, which is empty.
MeanValue_valarray_init == [n_samples : {0}, current_mean : {<<>>}]

\* the write of current_mean: the sample itself in the first branch,
\* otherwise  update = sample; update -= current_mean; update /= n_samples;
\* current_mean += update
MeanValue_valarray_update(st, sample, first) ==
  IF first
    THEN [st EXCEPT !.current_mean = RVec(sample)]
    ELSE [st EXCEPT !.current_mean =
            VAdd(st.current_mean,
                 VDiv(VSub(RVec(sample), st.current_mean), st.n_samples))]

\* the body of MeanValue::consume, run under the lock
MeanValue_valarray_consume(st, sample) ==
  LET ln == st.n_samples
  IN  MeanValue_valarray_update(MeanValue_count(st, ln), sample, ln = 0)

-----------------------------------------------------------------------------
(* Sequential drivers: one accumulator, one caller, whole calls            *)

\* the most calls of consume() a sequential driver makes
MeanMaxCalls == 4
HistMaxCalls == 6
AcovMaxCalls == 11

Threads == {"t1", "t2"}
NoThread == "none"
Objects == {"mean", "hist", "acov"}

\* an accumulator the driver does not construct is <<>>; no thread runs
Absent == <<>>
NoThreads ==
  /\ target = [t \in Threads |-> "none"]
  /\ pc = [t \in Threads |-> "idle"]
  /\ arg = [t \in Threads |-> <<>>]
  /\ tmp = [t \in Threads |-> <<>>]
  /\ out = [t \in Threads |-> <<>>]
  /\ calls = [t \in Threads |-> 0]
  /\ mutex = [o \in Objects |-> NoThread]
  /\ ref = [o \in Objects |-> Absent]
  /\ snaps = [o \in Objects |-> {}]
NoCalls ==
  /\ ret = <<>>
  /\ stream = <<>>
  /\ log = <<>>
  /\ seen = [s \in HistSamples |-> 0]
threadvars == <<target, pc, arg, tmp, out, calls, mutex, ref, snaps>>

RECURSIVE SumOver(_, _)
\* the sum of f[x] over x in S
SumOver(f, S) ==
  IF S = {} THEN 0
  ELSE LET x == CHOOSE y \in S : TRUE IN f[x] + SumOver(f, S \ {x})

InitMean ==
  /\ mean \in MeanValue_init
  /\ hist = Absent
  /\ acov = Absent
  /\ NoCalls
  /\ NoThreads

MeanConsume(sample) ==
  /\ Len(log) < MeanMaxCalls
  /\ mean' = MeanValue_consume(mean, sample)
  /\ log' = Append(log, sample)
  /\ ret' = <<>>
  /\ UNCHANGED <<hist, acov, stream, seen, threadvars>>

MeanGet ==
  /\ ret' = <<MeanValue_get(mean)>>
  /\ UNCHANGED <<mean, hist, acov, stream, log, seen, threadvars>>

NextMean == (\E sample \in MeanSamples : MeanConsume(sample)) \/ MeanGet

SpecMean == InitMean /\ [][NextMean]_vars

InitHist ==
  /\ mean = Absent
  /\ hist \in {Histogram_new(cfg) : cfg \in HistConfigs}
  /\ acov = Absent
  /\ NoCalls
  /\ NoThreads

HistConsume(sample) ==
  /\ SumOver(seen, HistSamples) < HistMaxCalls
  /\ hist' = Histogram_consume(hist, sample)
  /\ seen' = [seen EXCEPT ![sample] = @ + 1]
  /\ ret' = <<>>
  /\ stream' = <<>>
  /\ UNCHANGED <<mean, acov, log, threadvars>>

HistGet ==
  /\ ret' = <<Histogram_get(hist)>>
  /\ stream' = <<>>
  /\ UNCHANGED <<mean, hist, acov, log, seen, threadvars>>

HistWriteGnuplot ==
  /\ stream' = Histogram_write_gnuplot(hist)
  /\ ret' = <<>>
  /\ UNCHANGED <<mean, hist, acov, log, seen, threadvars>>

NextHist ==
  \/ \E sample \in HistSamples : HistConsume(sample)
  \/ HistGet
  \/ HistWriteGnuplot

SpecHist == InitHist /\ [][NextHist]_vars

InitAcov ==
  /\ mean = Absent
  /\ hist = Absent
  /\ acov \in Spurious_Autocovariance_init
  /\ NoCalls
  /\ NoThreads

AcovConsume(sample) ==
  /\ Len(log) < AcovMaxCalls
  /\ acov' = Spurious_Autocovariance_consume(acov, sample)
  /\ log' = Append(log, sample)
  /\ ret' = <<>>
  /\ UNCHANGED <<mean, hist, stream, seen, threadvars>>

AcovGet_moves_out ==
  /\ ret' = <<Spurious_Autocovariance_get(acov)>>
  /\ acov' = [acov EXCEPT !.current_autocovariation = <<>>]
  /\ UNCHANGED <<mean, hist, stream, log, seen, threadvars>>

AcovGet ==
  /\ ret' = <<Spurious_Autocovariance_get(acov)>>
  /\ UNCHANGED <<mean, hist, acov, stream, log, seen, threadvars>>

NextAcov == (\E sample \in AcovSamples : AcovConsume(sample)) \/ AcovGet

SpecAcov == InitAcov /\ [][NextAcov]_vars

\* One caller of a Histogram<double> whose constructor arguments and samples
\* are the doubles that decimal literals denote.  log keeps the literals.
DoubleMaxCalls == 3

\* <<min_value, max_value, n_subdivisions>>: (0, 1, 10) and (0, 0.7, 3)
DoubleConfigs == {<<<<0, 1>>, <<1, 1>>, 10>>, <<<<0, 1>>, <<7, 10>>, 3>>}

\* 0.25, 0.3, 0.7 and 1
DoubleSamples == {<<1, 4>>, <<3, 10>>, <<7, 10>>, <<1, 1>>}

InitDouble ==
  /\ mean = Absent
  /\ hist \in {Histogram_double_new(cfg) : cfg \in DoubleConfigs}
  /\ acov = Absent
  /\ NoCalls
  /\ NoThreads

DoubleConsume(sample) ==
  /\ Len(log) < DoubleMaxCalls
  /\ hist' = Histogram_double_consume(hist, Decimal(sample))
  /\ log' = Append(log, sample)
  /\ ret' = <<>>
  /\ UNCHANGED <<mean, acov, stream, seen, threadvars>>

DoubleGet ==
  /\ ret' = <<Histogram_double_get(hist)>>
  /\ UNCHANGED <<mean, hist, acov, stream, log, seen, threadvars>>

NextDouble == (\E sample \in DoubleSamples : DoubleConsume(sample)) \/ DoubleGet

SpecDouble == InitDouble /\ [][NextDouble]_vars

\* the driver constructed the accumulator obj
Constructed(obj) == DOMAIN obj # {}

\* One caller of either accumulator that counts its samples.
InitSeq == InitMean \/ InitAcov

NextSeq ==
  \/ Constructed(mean) /\ NextMean
  \/ Constructed(acov) /\ NextAcov

SpecSeq == InitSeq /\ [][NextSeq]_vars

\* One caller of any one of the three accumulators.
InitAny == InitMean \/ InitHist \/ InitAcov

NextAny ==
  \/ Constructed(mean) /\ NextMean
  \/ Constructed(hist) /\ NextHist
  \/ Constructed(acov) /\ NextAcov

SpecAny == InitAny /\ [][NextAny]_vars

\* One caller that feeds every sample to a MeanValue and then to a
\* Spurious_Autocovariance of the same sample type.
InitPair ==
  /\ mean \in MeanValue_valarray_init
  /\ hist = Absent
  /\ acov \in Spurious_Autocovariance_init
  /\ NoCalls
  /\ NoThreads

PairConsume(sample) ==
  /\ Len(log) < AcovMaxCalls
  /\ mean' = MeanValue_valarray_consume(mean, sample)
  /\ acov' = Spurious_Autocovariance_consume(acov, sample)
  /\ log' = Append(log, sample)
  /\ ret' = <<>>
  /\ UNCHANGED <<hist, stream, seen, threadvars>>

PairGet ==
  /\ ret' = <<MeanValue_get(mean), Spurious_Autocovariance_get(acov)>>
  /\ UNCHANGED <<mean, hist, acov, stream, log, seen, threadvars>>

NextPair == (\E sample \in AcovSamples : PairConsume(sample)) \/ PairGet

SpecPair == InitPair /\ [][NextPair]_vars

-----------------------------------------------------------------------------
(* Concurrent driver: every thread makes its calls on one accumulator, the *)
(* same as the other thread's or another one, one statement at a time.  A  *)
(* call of consume() is recorded in log, and applied to ref as a whole,    *)
(* when it returns.                                                        *)

\* the most calls each thread makes
ConcMaxCalls == 2

\* the samples the threads consume, and the Histogram they share
ConcMeanSamples == {2, 6}
ConcHistSamples == {40, 100, 110}
ConcHistConfig == <<0, 100, 5>>

\* K - 1 samples consumed before the threads start, so that their calls
\* reach the steady-state branch
AcovWarm ==
  << <<1, 2>>, <<3, -1>>, <<1, 2>>, <<1, 2>>, <<3, -1>>,
     <<3, -1>>, <<1, 2>>, <<3, -1>>, <<1, 2>> >>

RECURSIVE AcovFold(_, _)
\* consume() called with each sample of s in turn
AcovFold(st, s) ==
  IF s = <<>> THEN st
  ELSE AcovFold(Spurious_Autocovariance_consume(st, Head(s)), Tail(s))

\* the samples thread t passes to consume(): any of its accumulator's
\* samples if the threads share the accumulator, one of them if they do not
\* (their calls then meet in no state of an accumulator)
ConcSamples(t) ==
  LET all == CASE target[t] = "mean" -> ConcMeanSamples
               [] target[t] = "hist" -> ConcHistSamples
               [] OTHER              -> AcovSamples
  IN  IF \A u \in Threads : target[u] = target[t]
        THEN all
        ELSE {CHOOSE x \in all : TRUE}

\* a thread's local variables: ln a counter it read, i a bin or loop index,
\* rv the return_value it builds, br the branch it chose
NoLocals == [ln |-> 0, i |-> 0, rv |-> <<>>, br |-> "none"]

\* the accumulators some thread of tg calls
Called(tg) == {tg[t] : t \in Threads}

\* the threads call the accumulators tg assigns them; an accumulator both
\* threads call may have consumed the samples of AcovWarm before
InitThreads(tg) ==
  /\ target = tg
  /\ mean \in (IF "mean" \in Called(tg) THEN MeanValue_init ELSE {Absent})
  /\ hist = (IF "hist" \in Called(tg) THEN Histogram_new(ConcHistConfig) ELSE Absent)
  /\ \E warm \in (IF Called(tg) = {"acov"} THEN {<<>>, AcovWarm} ELSE {<<>>}) :
       /\ acov \in (IF "acov" \in Called(tg)
                      THEN {AcovFold(st, warm) : st \in Spurious_Autocovariance_init}
                      ELSE {Absent})
       /\ log = warm
  /\ ref = [o \in Objects |->
              CASE o = "mean" -> mean [] o = "hist" -> hist [] OTHER -> acov]
  /\ snaps = [o \in Objects |->
                CASE o \notin Called(tg) -> {}
                  [] o = "mean" -> {MeanValue_get(mean)}
                  [] o = "hist" -> {Histogram_get(hist)}
                  [] OTHER      -> {Spurious_Autocovariance_get(acov)}]
  /\ ret = <<>>
  /\ stream = <<>>
  /\ seen = [s \in HistSamples |-> 0]
  /\ pc = [t \in Threads |-> "idle"]
  /\ arg = [t \in Threads |-> <<>>]
  /\ tmp = [t \in Threads |-> NoLocals]
  /\ out = [t \in Threads |-> <<>>]
  /\ calls = [t \in Threads |-> 0]
  /\ mutex = [o \in Objects |-> NoThread]

\* the threads share one accumulator
InitConc == \E o \in Objects : InitThreads([t \in Threads |-> o])

ConsumeLock_missing(t) == TRUE

\* std::lock_guard<std::mutex> lock(mutex) of consume() can take the mutex
ConsumeMayLock(t) == mutex[target[t]] = NoThread

GetLock_missing(t) == TRUE

\* std::lock_guard<std::mutex> lock(mutex) of get() can take the mutex
GetMayLock(t) == mutex[target[t]] = NoThread

\* the mutex of the accumulator thread t calls is locked by t
Lock(t) == mutex' = [mutex EXCEPT ![target[t]] = t]

Unlock_missing(t) == UNCHANGED mutex

\* ~lock_guard
Unlock(t) ==
  mutex' = [mutex EXCEPT ![target[t]] = IF @ = t THEN NoThread ELSE @]

Goto(t, label) == pc' = [pc EXCEPT ![t] = label]

\* the call of thread t returns
Return(t) ==
  /\ pc' = [pc EXCEPT ![t] = "idle"]
  /\ tmp' = [tmp EXCEPT ![t] = NoLocals]
  /\ arg' = [arg EXCEPT ![t] = <<>>]

\* the consume call of thread t is complete: history
Record(t, newref, stat) ==
  /\ log' = Append(log, arg[t][1])
  /\ ref' = [ref EXCEPT ![target[t]] = newref]
  /\ snaps' = [snaps EXCEPT ![target[t]] = @ \cup {stat}]

objects == <<mean, hist, acov>>
history == <<log, ref, snaps>>
seqvars == <<ret, stream, seen, target>>

StartConsume(t, sample) ==
  /\ pc[t] = "idle"
  /\ calls[t] < ConcMaxCalls
  /\ calls' = [calls EXCEPT ![t] = @ + 1]
  /\ arg' = [arg EXCEPT ![t] = <<sample>>]
  /\ Goto(t, IF target[t] = "hist" THEN "hc_check" ELSE "c_lock")
  /\ UNCHANGED <<objects, history, seqvars, tmp, out, mutex>>

StartGet(t) ==
  /\ pc[t] = "idle"
  /\ calls[t] < ConcMaxCalls
  /\ calls' = [calls EXCEPT ![t] = @ + 1]
  /\ Goto(t, IF target[t] = "hist" THEN "hg_table" ELSE "g_lock")
  /\ UNCHANGED <<objects, history, seqvars, arg, tmp, out, mutex>>

ConsumeLock_temporary(t) ==
  /\ pc[t] = "c_lock"
  /\ ConsumeMayLock(t)
  /\ Goto(t, CASE target[t] = "mean" -> "mc_load"
               [] target[t] = "hist" -> "hc_load"
               [] OTHER              -> "ac_branch")
  /\ UNCHANGED <<objects, history, seqvars, arg, tmp, out, calls, mutex>>

ConsumeLock(t) ==
  /\ pc[t] = "c_lock"
  /\ ConsumeMayLock(t)
  /\ Lock(t)
  /\ Goto(t, CASE target[t] = "mean" -> "mc_load"
               [] target[t] = "hist" -> "hc_load"
               [] OTHER              -> "ac_branch")
  /\ UNCHANGED <<objects, history, seqvars, arg, tmp, out, calls>>

GetLock(t) ==
  /\ pc[t] = "g_lock"
  /\ GetMayLock(t)
  /\ Lock(t)
  /\ Goto(t, CASE target[t] = "mean" -> "mg_return"
               [] target[t] = "hist" -> "hg_copy"
               [] OTHER              -> "ag_return")
  /\ UNCHANGED <<objects, history, seqvars, arg, tmp, out, calls>>

(* MeanValue::consume and MeanValue::get *)

MeanConsumeLoad(t) ==
  /\ pc[t] = "mc_load"
  /\ tmp' = [tmp EXCEPT ![t].ln = mean.n_samples]
  /\ Goto(t, "mc_count")
  /\ UNCHANGED <<objects, history, seqvars, arg, out, calls, mutex>>

MeanConsumeCount(t) ==
  /\ pc[t] = "mc_count"
  /\ mean' = MeanValue_count(mean, tmp[t].ln)
  /\ Goto(t, "mc_update")
  /\ UNCHANGED <<hist, acov, history, seqvars, arg, tmp, out, calls, mutex>>

MeanConsumeUpdate(t) ==
  /\ pc[t] = "mc_update"
  /\ mean' = MeanValue_update(mean, arg[t][1], tmp[t].ln = 0)
  /\ Unlock(t)
  /\ Return(t)
  /\ LET r == MeanValue_consume(ref["mean"], arg[t][1]) IN Record(t, r, MeanValue_get(r))
  /\ UNCHANGED <<hist, acov, seqvars, out, calls>>

MeanGetReturn(t) ==
  /\ pc[t] = "mg_return"
  /\ out' = [out EXCEPT ![t] = <<MeanValue_get(mean)>>]
  /\ Unlock(t)
  /\ Return(t)
  /\ UNCHANGED <<objects, history, seqvars, calls>>

(* Histogram::consume and Histogram::get *)

HistConsumeCheck(t) ==
  /\ pc[t] = "hc_check"
  /\ IF Histogram_discards(hist, arg[t][1])
       THEN /\ Return(t)
            /\ Record(t, ref["hist"], Histogram_get(ref["hist"]))
            /\ UNCHANGED hist
       ELSE IF ~bin_number_asserts(hist, RInt(arg[t][1]))
         THEN /\ hist' = [hist EXCEPT !.fault = TRUE]
              /\ Return(t)
              /\ Record(t, ref["hist"], Histogram_get(ref["hist"]))
         ELSE /\ tmp' = [tmp EXCEPT ![t].i = bin_number(hist, RInt(arg[t][1]))]
              /\ Goto(t, "c_lock")
              /\ UNCHANGED <<hist, history, arg>>
  /\ UNCHANGED <<mean, acov, seqvars, out, calls, mutex>>

HistConsumeLoad(t) ==
  /\ pc[t] = "hc_load"
  /\ tmp' = [tmp EXCEPT ![t].ln = Histogram_load(hist, tmp[t].i)]
  /\ Goto(t, "hc_store")
  /\ UNCHANGED <<objects, history, seqvars, arg, out, calls, mutex>>

HistConsumeStore(t) ==
  /\ pc[t] = "hc_store"
  /\ hist' = Histogram_increment(hist, tmp[t].i, tmp[t].ln)
  /\ Unlock(t)
  /\ Return(t)
  /\ LET r == Histogram_consume(ref["hist"], arg[t][1]) IN Record(t, r, Histogram_get(r))
  /\ UNCHANGED <<mean, acov, seqvars, out, calls>>

HistGetTable(t) ==
  /\ pc[t] = "hg_table"
  /\ tmp' = [tmp EXCEPT ![t].rv = Histogram_table(hist), ![t].i = 0]
  /\ Goto(t, "g_lock")
  /\ UNCHANGED <<objects, history, seqvars, arg, out, calls, mutex>>

HistGetCopy(t) ==
  /\ pc[t] = "hg_copy"
  /\ LET rv == Histogram_copy(hist, tmp[t].rv, tmp[t].i)
     IN  IF tmp[t].i + 1 < hist.n_subdivisions
           THEN /\ tmp' = [tmp EXCEPT ![t].rv = rv, ![t].i = @ + 1]
                /\ UNCHANGED <<pc, arg, out, mutex>>
           ELSE /\ out' = [out EXCEPT ![t] = <<rv>>]
                /\ Unlock(t)
                /\ Return(t)
  /\ UNCHANGED <<objects, history, seqvars, calls>>

(* Spurious_Autocovariance::consume and Spurious_Autocovariance::get *)

AcovConsumeBranch(t) ==
  /\ pc[t] = "ac_branch"
  /\ tmp' = [tmp EXCEPT ![t].ln = acov.n_samples, ![t].br = Acov_branch(acov)]
  /\ Goto(t, IF Acov_branch(acov) = "first" THEN "ac_first" ELSE "ac_count")
  /\ UNCHANGED <<objects, history, seqvars, arg, out, calls, mutex>>

AcovConsumeFirst(t) ==
  /\ pc[t] = "ac_first"
  /\ acov' = Acov_first(acov, arg[t][1])
  /\ Unlock(t)
  /\ Return(t)
  /\ LET r == Spurious_Autocovariance_consume(ref["acov"], arg[t][1])
     IN  Record(t, r, Spurious_Autocovariance_get(r))
  /\ UNCHANGED <<mean, hist, seqvars, out, calls>>

AcovConsumeCount(t) ==
  /\ pc[t] = "ac_count"
  /\ acov' = Acov_count(acov, tmp[t].ln, tmp[t].br)
  /\ Goto(t, "ac_alphabeta")
  /\ UNCHANGED <<mean, hist, history, seqvars, arg, tmp, out, calls, mutex>>

AcovConsumeAlphaBeta(t) ==
  /\ pc[t] = "ac_alphabeta"
  /\ acov' = Acov_alphabeta(acov, arg[t][1],
                            IF tmp[t].br = "warmup" THEN acov.n_samples - 1 ELSE K)
  /\ Goto(t, "ac_shift")
  /\ UNCHANGED <<mean, hist, history, seqvars, arg, tmp, out, calls, mutex>>

AcovConsumeShift(t) ==
  /\ pc[t] = "ac_shift"
  /\ acov' = Acov_shift(acov, arg[t][1],
                        IF tmp[t].br = "warmup" THEN acov.n_samples - 1 ELSE K - 1)
  /\ Goto(t, "ac_mean")
  /\ UNCHANGED <<mean, hist, history, seqvars, arg, tmp, out, calls, mutex>>

AcovConsumeMean(t) ==
  /\ pc[t] = "ac_mean"
  /\ acov' = Acov_mean(acov, arg[t][1])
  /\ IF tmp[t].br = "warmup"
       THEN /\ Unlock(t)
            /\ Return(t)
            /\ LET r == Spurious_Autocovariance_consume(ref["acov"], arg[t][1])
               IN  Record(t, r, Spurious_Autocovariance_get(r))
       ELSE /\ tmp' = [tmp EXCEPT ![t].i = 0]
            /\ Goto(t, "ac_recompute")
            /\ UNCHANGED <<history, arg, mutex>>
  /\ UNCHANGED <<mean, hist, seqvars, out, calls>>

AcovConsumeRecompute(t) ==
  /\ pc[t] = "ac_recompute"
  /\ acov' = Acov_recompute(acov, tmp[t].i)
  /\ IF tmp[t].i + 1 < K
       THEN /\ tmp' = [tmp EXCEPT ![t].i = @ + 1]
            /\ UNCHANGED <<history, pc, arg, mutex>>
       ELSE /\ Unlock(t)
            /\ Return(t)
            /\ LET r == Spurious_Autocovariance_consume(ref["acov"], arg[t][1])
               IN  Record(t, r, Spurious_Autocovariance_get(r))
  /\ UNCHANGED <<mean, hist, seqvars, out, calls>>

AcovGetReturn(t) ==
  /\ pc[t] = "ag_return"
  /\ out' = [out EXCEPT ![t] = <<Spurious_Autocovariance_get(acov)>>]
  /\ Unlock(t)
  /\ Return(t)
  /\ UNCHANGED <<objects, history, seqvars, calls>>

NextConc ==
  \E t \in Threads :
    \/ \E sample \in ConcSamples(t) : StartConsume(t, sample)
    \/ StartGet(t)
    \/ ConsumeLock(t)
    \/ GetLock(t)
    \/ MeanConsumeLoad(t)
    \/ MeanConsumeCount(t)
    \/ MeanConsumeUpdate(t)
    \/ MeanGetReturn(t)
    \/ HistConsumeCheck(t)
    \/ HistConsumeLoad(t)
    \/ HistConsumeStore(t)
    \/ HistGetTable(t)
    \/ HistGetCopy(t)
    \/ AcovConsumeBranch(t)
    \/ AcovConsumeFirst(t)
    \/ AcovConsumeCount(t)
    \/ AcovConsumeAlphaBeta(t)
    \/ AcovConsumeShift(t)
    \/ AcovConsumeMean(t)
    \/ AcovConsumeRecompute(t)
    \/ AcovGetReturn(t)

SpecConc == InitConc /\ [][NextConc]_vars

\* the threads call one accumulator or two different ones
InitMulti == \E tg \in [Threads -> Objects] : InitThreads(tg)

\* a step of the call thread t is making
Run(t) ==
  \/ ConsumeLock(t)
  \/ GetLock(t)
  \/ MeanConsumeLoad(t)
  \/ MeanConsumeCount(t)
  \/ MeanConsumeUpdate(t)
  \/ MeanGetReturn(t)
  \/ HistConsumeCheck(t)
  \/ HistConsumeLoad(t)
  \/ HistConsumeStore(t)
  \/ HistGetTable(t)
  \/ HistGetCopy(t)
  \/ AcovConsumeBranch(t)
  \/ AcovConsumeFirst(t)
  \/ AcovConsumeCount(t)
  \/ AcovConsumeAlphaBeta(t)
  \/ AcovConsumeShift(t)
  \/ AcovConsumeMean(t)
  \/ AcovConsumeRecompute(t)
  \/ AcovGetReturn(t)

\* Run(t) is possible: thread t is inside a call and is not waiting for a
\* mutex that another thread holds.  This is ENABLED <<Run(t)>>_vars.
Runnable(t) ==
  /\ pc[t] # "idle"
  /\ pc[t] = "c_lock" => ConsumeMayLock(t)
  /\ pc[t] = "g_lock" => GetMayLock(t)

\* A thread inside a call is scheduled again and again: a step of its call
\* that stays possible is taken.  Whether and when a thread starts a call
\* is up to the caller.  The formula is WF_vars(Run(t)) for every thread t,
\* with ENABLED <<Run(t)>>_vars written as Runnable(t).
FairThreads ==
  \A t \in Threads : []<>(~Runnable(t)) \/ []<><<Run(t)>>_vars

SpecMulti == InitMulti /\ [][NextConc]_vars /\ FairThreads

-----------------------------------------------------------------------------
(* Properties of the sequential drivers                                    *)

\* C1 (SpecMean): after every consume call get() is the arithmetic mean of
\* the samples consumed so far, whatever their order: n * get() equals
\* x1 + ... + xn exactly.
C1_MeanIsArithmeticMean ==
  Len(log) >= 1 =>
    RMul(RInt(Len(log)), MeanValue_get(mean)) = RInt(SumSeq(log))

\* 2, 4, 6 have been consumed and get() is 4
C1_Witness == log = <<2, 4, 6>> /\ MeanValue_get(mean) = RInt(4)

\* C14 (SpecMean): get() called before any consume call returns the zero of
\* the sample type, double.
C14_GetBeforeConsumeIsZero ==
  (Len(log) = 0 /\ ret # <<>>) => ret[1] = Zero

\* the sample lies in [min_value, max_value] of the histogram h
InRange(h, s) == RLe(h.min_value, RInt(s)) /\ RLe(RInt(s), h.max_value)

\* floor((s - min_value) * n_bins / (max_value - min_value)), clamped to
\* [0, n_bins - 1]
ExpectedBin(h, s) ==
  LET q == RDiv(RMul(RSub(RInt(s), h.min_value), RInt(h.n_subdivisions)),
                RSub(h.max_value, h.min_value))
  IN  Max2(0, Min2(h.n_subdivisions - 1, q[1] \div q[2]))

\* the step is a call consume(s)
Consumes(s) == seen' = [seen EXCEPT ![s] = @ + 1]

\* the sum of the counts get() reports
CountSum(g) == SumOver([b \in DOMAIN g |-> g[b][3]], DOMAIN g)

\* C2 (SpecHist): the counts get() reports sum to the number of consume calls
\* whose sample was in [min_value, max_value]; so to N after N calls with
\* samples in the range.
C2_CountsSumToInRangeCalls ==
  CountSum(Histogram_get(hist)) =
    SumOver(seen, {s \in HistSamples : InRange(hist, s)})

\* four calls on [0, 100], one of them out of range: three are counted
C2_Witness ==
  /\ hist.max_value = RInt(100)
  /\ seen[0] = 1 /\ seen[100] = 1 /\ seen[40] = 1 /\ seen[-50] = 1
  /\ SumOver(seen, HistSamples) = 4
  /\ CountSum(Histogram_get(hist)) = 3

\* C3 (SpecHist): a consume call with sample < min_value or sample >
\* max_value changes no bin count and raises no fault.
C3_OutOfRangeDiscarded ==
  [][\A s \in HistSamples :
       (Consumes(s) /\ ~InRange(hist, s)) => (hist' = hist /\ ~hist'.fault)]_vars

\* one sample below and one above [0, 100] were consumed, all bins are 0
C3_Witness ==
  /\ hist.max_value = RInt(100)
  /\ seen[-50] = 1 /\ seen[110] = 1
  /\ SumOver(seen, HistSamples) = 2
  /\ \A b \in DOMAIN hist.bins : hist.bins[b] = 0
  /\ ~hist.fault

\* C4 (SpecHist): a consume call with a sample in [min_value, max_value]
\* adds one to the bin floor((sample - min_value) / w), w = (max_value -
\* min_value) / n_bins, clamped to [0, n_bins - 1], and changes nothing else.
C4_LinearBinIncrement ==
  [][\A s \in HistSamples :
       (Consumes(s) /\ InRange(hist, s)) =>
         hist' = [hist EXCEPT !.bins[ExpectedBin(hist, s)] = @ + 1]]_vars

\* min 0, max 10, 5 bins in tenths: the samples 1, 1, 4, 9.9, -5, 11 give
\* the counts 2, 0, 1, 0, 1
C4_Witness ==
  /\ hist.max_value = RInt(100) /\ hist.n_subdivisions = 5
  /\ seen = [s \in HistSamples |->
               IF s = 10 THEN 2 ELSE IF s \in {40, 99, -50, 110} THEN 1 ELSE 0]
  /\ hist.bins = [b \in 0 .. 4 |-> IF b = 0 THEN 2 ELSE IF b \in {2, 4} THEN 1 ELSE 0]

\* C5 (SpecHist): a sample equal to min_value is counted in bin 0 and a
\* sample equal to max_value in bin n_bins - 1, without a fault.
C5_BoundarySamples ==
  [][\A s \in HistSamples :
       Consumes(s) =>
         /\ RInt(s) = hist.min_value =>
              (hist'.bins[0] = hist.bins[0] + 1 /\ ~hist'.fault)
         /\ RInt(s) = hist.max_value =>
              /\ hist'.bins[hist.n_subdivisions - 1] =
                   hist.bins[hist.n_subdivisions - 1] + 1
              /\ ~hist'.fault]_vars

\* with 5 bins on [0, 100]: 0 and 100 were consumed, bins 0 and 4 hold them
C5_Witness ==
  /\ hist.max_value = RInt(100) /\ hist.n_subdivisions = 5
  /\ seen[0] = 1 /\ seen[100] = 1
  /\ SumOver(seen, HistSamples) = 2
  /\ hist.bins[0] = 1 /\ hist.bins[4] = 1

C17_GnuplotRectangles ==
  stream # <<>> =>
    LET g == Histogram_get(hist)
        n == hist.n_subdivisions
    IN  /\ Len(stream) = 5 * n
        /\ \A b \in 0 .. n - 1 :
             /\ stream[5 * b + 1] = <<g[b][1], 0>>
             /\ stream[5 * b + 2] = <<g[b][1], g[b][3]>>
             /\ stream[5 * b + 3] = <<g[b][2], g[b][3]>>
             /\ stream[5 * b + 4] = <<g[b][2], 0>>
             /\ stream[5 * b + 5] = <<>>

\* write_gnuplot was called after 10, 10 and 40 (in tenths) were consumed
\* on [0, 100] with 5 bins: the first rectangle has height 2, the second 0
C17_Witness ==
  /\ hist.max_value = RInt(100) /\ hist.n_subdivisions = 5
  /\ seen[10] = 2 /\ seen[40] = 1
  /\ Len(stream) = 25
  /\ stream[2] = <<RInt(0), 2>>
  /\ stream[3] = <<RInt(20), 2>>
  /\ stream[5] = <<>>
  /\ stream[7] = <<RInt(20), 0>>
  /\ stream[12] = <<RInt(40), 1>>

\* C24 (SpecDouble): counting and reporting agree.  The sample s of a
\* consume call that incremented bin i lies between the edges get() reports
\* for bin i, left_i <= s <= right_i, and s < right_i unless i is the last
\* bin.
C24_CountedInsideItsBin ==
  [][\A i \in DOMAIN hist.bins :
       hist'.bins[i] = hist.bins[i] + 1 =>
         LET s   == Decimal(log'[Len(log')])
             bin == Histogram_double_get(hist')[i]
         IN  /\ DLe(bin[1], s)
             /\ DLe(s, bin[2])
             /\ i # hist.n_subdivisions - 1 => DLt(s, bin[2])]_vars

\* C9 (SpecAcov): after exactly one consume call get() returns a k x 1
\* matrix that is zero for every lag.
C9_ZeroAfterFirstSample ==
  acov.n_samples = 1 =>
    Spurious_Autocovariance_get(acov) = [i \in 0 .. K - 1 |-> <<Zero>>]

\* get() was called after one consume call and returned the zero matrix
C9_Witness ==
  /\ Len(log) = 1
  /\ acov.n_samples = 1
  /\ ret = <<[i \in 0 .. K - 1 |-> <<Zero>>]>>

\* the step is a call consume(log'[Len(log')]) of Spurious_Autocovariance
AcovConsumes == Len(log') = Len(log) + 1

\* alpha(i) and beta(i) of the step's new state are the running averages
\* extended by the new sample x and the sample i + 1 steps back
LagUpdated(i, x) ==
  LET n == acov'.n_samples
  IN  /\ RMul(RInt(n), acov'.alpha[i][1]) =
           RAdd(RMul(RInt(n - 1), acov.alpha[i][1]), Dot(x, acov.past_sample[i]))
      /\ \A j \in 1 .. Len(x) :
           RMul(RInt(n), acov'.beta[i][j]) =
             RAdd(RMul(RInt(n - 1), acov.beta[i][j]),
                  RAdd(x[j], acov.past_sample[i][j]))

\* every lag's exported value of the step's new state was computed from the
\* new alpha, beta and mean with one and the same last term
AllLagsRecomputed ==
  LET rest(i) == RAdd(RSub(acov'.current_autocovariation[i][1], acov'.alpha[i][1]),
                      Dot(acov'.current_mean, acov'.beta[i]))
  IN  \A i \in Lags : rest(i) = rest(0)

\* C10 as stated (SpecAcov): with n the count after the new sample, n >= k
\* selects the steady-state update (all k lags updated, the exported values
\* recomputed), and the warm-up update is selected only when 1 < n < k.
C10_SteadyFromK ==
  [][AcovConsumes =>
       LET n == acov'.n_samples
           x == RVec(log'[Len(log')])
       IN  /\ n >= K =>
                /\ acov'.phase = "steady"
                /\ \A i \in Lags : LagUpdated(i, x)
                /\ AllLagsRecomputed
           /\ acov'.phase = "warmup" => (1 < n /\ n < K)]_vars

\* C10 as amended (SpecAcov): n > k selects the steady-state update (all k
\* lags updated, the exported values recomputed); the warm-up update is
\* selected exactly when 1 < n <= k, and it updates the lags 0 .. n-2 only.
C10_SteadyAfterK ==
  [][AcovConsumes =>
       LET n == acov'.n_samples
           x == RVec(log'[Len(log')])
       IN  /\ acov'.phase = "steady" <=> n > K
           /\ acov'.phase = "warmup" <=> (1 < n /\ n <= K)
           /\ acov'.phase = "first" <=> n = 1
           /\ acov'.phase = "steady" =>
                /\ \A i \in Lags : LagUpdated(i, x)
                /\ AllLagsRecomputed
           /\ acov'.phase = "warmup" =>
                \A i \in Lags :
                  IF i <= n - 2
                    THEN LagUpdated(i, x)
                    ELSE /\ acov'.alpha[i] = acov.alpha[i]
                         /\ acov'.beta[i] = acov.beta[i]]_vars

\* the k-th sample was consumed by the warm-up update and the (k+1)-th by
\* the steady-state update
C10_Witness ==
  /\ acov.n_samples = K + 1
  /\ acov.phase = "steady"
  /\ acov.past_sample[K - 1] = RVec(log[2])

\* C11 (SpecAcov): after a steady-state consume the exported value of every
\* lag is alpha - mean . beta + ((n-1)/n) * (mean . mean), with (n-1)/n the
\* quotient of real numbers.
C11_RealQuotient ==
  acov.phase = "steady" =>
    LET n == acov.n_samples
        m == acov.current_mean
    IN  \A i \in Lags :
          Spurious_Autocovariance_get(acov)[i][1] =
            RAdd(RSub(acov.alpha[i][1], Dot(m, acov.beta[i])),
                 RMul(RDiv(RInt(n - 1), RInt(n)), Dot(m, m)))

RECURSIVE VSum(_)
\* x_1 + ... + x_n of the non-empty sequence s of samples
VSum(s) ==
  IF Len(s) = 1 THEN RVec(s[1]) ELSE VAdd(RVec(Head(s)), VSum(Tail(s)))

\* the mean of the samples of s
RefMean(s) == VDiv(VSum(s), Len(s))

RECURSIVE RefCovSum(_, _, _)
\* the sum over u = t .. n-l of (x_{u+l} - mean) . (x_u - mean), n = Len(s)
RefCovSum(s, l, t) ==
  IF t + l > Len(s) THEN Zero
  ELSE RAdd(Dot(VSub(RVec(s[t + l]), RefMean(s)), VSub(RVec(s[t]), RefMean(s))),
            RefCovSum(s, l, t + 1))

\* C12 (SpecAcov): after a steady-state consume of x_n, what get() reports
\* for the lag l in 1..k, row l-1 of the matrix, is the reference value
\* (1/n) * sum over t = 1..n-l of (x_{t+l} - mean) . (x_t - mean), with mean
\* the mean of x_1..x_n.
C12_MatchesReference ==
  acov.phase = "steady" =>
    \A l \in 1 .. K :
      RMul(RInt(Len(log)), Spurious_Autocovariance_get(acov)[l - 1][1]) =
        RefCovSum(log, l, 1)

\* the matrix m has the rows 0 .. rows-1, each of cols entries
HasShape(m, rows, cols) ==
  /\ DOMAIN m = 0 .. rows - 1
  /\ \A i \in DOMAIN m : Len(m[i]) = cols

\* C13 (SpecAcov): however many samples were consumed, from the first one
\* on the window is k x dim (so it holds at most k samples), alpha is k x 1,
\* beta is k x dim and the exported matrix is k x 1, with dim the size of
\* the first sample.
C13_BoundedState ==
  acov.n_samples >= 1 =>
    LET dim == Len(log[1])
    IN  /\ HasShape(acov.past_sample, K, dim)
        /\ HasShape(acov.alpha, K, 1)
        /\ HasShape(acov.beta, K, dim)
        /\ HasShape(Spurious_Autocovariance_get(acov), K, 1)

\* k + 1 samples were consumed, the window has k rows and the first sample
\* is no longer in it
C13_Witness ==
  /\ Len(log) = K + 1
  /\ log[1] = <<3, -1>>
  /\ \A t \in 2 .. K + 1 : log[t] = <<1, 2>>
  /\ Cardinality(DOMAIN acov.past_sample) = K
  /\ \A i \in DOMAIN acov.past_sample : acov.past_sample[i] = RVec(<<1, 2>>)

\* C19 (SpecAcov): after n >= 1 consume calls, row i of the window holds,
\* for every i in 0 .. min(n,k)-1, the sample consumed i calls before the
\* most recent one; the window has k rows, so once n > k the samples older
\* than the last k are not in it.
C19_WindowNewestFirst ==
  LET n == Len(log)
  IN  n >= 1 =>
        /\ DOMAIN acov.past_sample = 0 .. K - 1
        /\ \A i \in 0 .. Min2(n, K) - 1 : acov.past_sample[i] = RVec(log[n - i])

\* k + 1 samples were consumed, the first two and the last two differ: the
\* window starts with the last sample and ends with the second
C19_Witness ==
  /\ Len(log) = K + 1
  /\ log[1] = <<1, 2>> /\ log[2] = <<3, -1>>
  /\ log[K] = <<1, 2>> /\ log[K + 1] = <<3, -1>>
  /\ acov.past_sample[0] = RVec(<<3, -1>>)
  /\ acov.past_sample[1] = RVec(<<1, 2>>)
  /\ acov.past_sample[K - 1] = RVec(<<3, -1>>)

RECURSIVE DotSum(_, _, _)
\* the sum over u = t .. n-l of x_{u+l} . x_u, n = Len(s)
DotSum(s, l, t) ==
  IF t + l > Len(s) THEN Zero
  ELSE RAdd(Dot(RVec(s[t + l]), RVec(s[t])), DotSum(s, l, t + 1))

RECURSIVE PairSum(_, _, _)
\* the sum over u = t .. n-l of x_{u+l} + x_u, n = Len(s)
PairSum(s, l, t) ==
  IF t + l > Len(s) THEN [j \in 1 .. Len(s[1]) |-> Zero]
  ELSE VAdd(VAdd(RVec(s[t + l]), RVec(s[t])), PairSum(s, l, t + 1))

\* C20 (SpecAcov): after consuming x_1..x_n, for every lag l in 1..k (row
\* l-1), n * alpha(l) is the sum over t = 1..n-l of x_{t+l} . x_t and
\* n * beta(l) the sum over t = 1..n-l of x_{t+l} + x_t; both are zero when
\* l >= n.
C20_AlphaBetaSums ==
  LET n == Len(log)
  IN  n >= 1 =>
        \A l \in 1 .. K :
          /\ RMul(RInt(n), acov.alpha[l - 1][1]) = DotSum(log, l, 1)
          /\ \A j \in 1 .. Len(log[1]) :
               RMul(RInt(n), acov.beta[l - 1][j]) = PairSum(log, l, 1)[j]

\* after k + 1 samples that are not all equal, alpha and beta of the
\* largest lag k hold the one product and the one sum of x_{k+1} and x_1
C20_Witness ==
  /\ Len(log) = K + 1
  /\ log[1] = <<3, -1>> /\ log[K + 1] = <<1, 2>>
  /\ acov.alpha[K - 1] = <<<<1, K + 1>>>>
  /\ acov.beta[K - 1] = <<<<4, K + 1>>, <<1, K + 1>>>>
  /\ acov.alpha[0][1] # Zero

\* the k x 1 matrix of zeros
ZeroMatrix == [i \in Lags |-> <<Zero>>]

\* C21 (SpecAcov): a warm-up consume, n the count after the new sample,
\* updates alpha(i) and beta(i) for the lags i in 0 .. n-2, leaves alpha(i)
\* and beta(i) of every lag i >= n-1 unchanged and zero, and leaves the
\* exported matrix unchanged; so from the first sample until the first
\* steady-state update get() returns zero for every lag.
C21_WarmupFrame ==
  /\ [][(AcovConsumes /\ acov'.phase = "warmup") =>
          LET n == acov'.n_samples
              x == RVec(log'[Len(log')])
          IN  /\ \A i \in Lags :
                   IF i <= n - 2
                     THEN LagUpdated(i, x)
                     ELSE /\ acov'.alpha[i] = acov.alpha[i]
                          /\ acov'.beta[i] = acov.beta[i]
                          /\ acov'.alpha[i] = <<Zero>>
                          /\ \A j \in 1 .. Len(x) : acov'.beta[i][j] = Zero
              /\ acov'.current_autocovariation = acov.current_autocovariation]_vars
  /\ [](acov.phase \in {"first", "warmup"} =>
          Spurious_Autocovariance_get(acov) = ZeroMatrix)

\* the fifth sample was consumed by the warm-up update: the lags 0 .. 3
\* have a partner in the window, the lag 4 has none yet, and get() returned
\* the zero matrix
C21_Witness ==
  /\ acov.phase = "warmup"
  /\ acov.n_samples = 5
  /\ \A i \in 0 .. 3 : acov.alpha[i] # <<Zero>> /\ acov.beta[i][1] # Zero
  /\ acov.alpha[4] = <<Zero>>
  /\ acov.current_mean # RVec(log[1])
  /\ ret = <<ZeroMatrix>>

\* C22 (SpecPair): a Spurious_Autocovariance and a MeanValue that were fed
\* the same samples have, after every consume call, equal sample counters
\* and equal running means.
C22_MeanInStep ==
  /\ acov.n_samples = mean.n_samples
  /\ acov.current_mean = mean.current_mean
  /\ acov.n_samples = Len(log)

\* both consumed k + 1 samples that are not all equal, the last one in the
\* steady-state branch, and get() of MeanValue returned the common mean
C22_Witness ==
  /\ Len(log) = K + 1
  /\ log[1] = <<1, 2>> /\ log[K + 1] = <<3, -1>>
  /\ acov.phase = "steady"
  /\ mean.n_samples = K + 1
  /\ mean.current_mean # RVec(log[1])
  /\ ret # <<>> /\ ret[1] = acov.current_mean

\* the member n_samples of the accumulator the driver constructed
Counter == IF Constructed(mean) THEN mean.n_samples ELSE acov.n_samples

\* C16 (SpecSeq): the sample counter of MeanValue and of
\* Spurious_Autocovariance is 0 after construction, a consume call adds
\* exactly 1 to it in whichever branch it runs, and get() leaves it alone;
\* so it equals the number of consume calls made.
C16_CounterCountsCalls ==
  /\ Counter = 0
  /\ [][IF Len(log') = Len(log) + 1
         THEN Counter' = Counter + 1
         ELSE Counter' = Counter]_vars
  /\ [](Counter = Len(log))

\* Spurious_Autocovariance went through the first-sample branch, k - 1
\* warm-up calls and one steady-state call, then get(): the counter is k + 1
C16_Witness ==
  /\ Constructed(acov)
  /\ acov.phase = "steady"
  /\ Len(log) = K + 1
  /\ Counter = K + 1
  /\ ret = <<Spurious_Autocovariance_get(acov)>>

\* the step is a call of get(): the sequential drivers set ret to what
\* get() returned and every other call clears it
GetReturns == ret' # <<>>

\* C25 (SpecAny): get() of MeanValue, of Histogram and of
\* Spurious_Autocovariance changes no member of the accumulator (counter,
\* running mean, bin counts, window, alpha, beta, exported matrix); so a
\* get() that follows a get(), with no other call between them, returns the
\* same result.
C25_GetIsReadOnly ==
  [][GetReturns =>
       /\ mean' = mean /\ hist' = hist /\ acov' = acov
       /\ ret # <<>> => ret' = ret]_vars

\* get() returned the exported matrix of a Spurious_Autocovariance that is
\* in steady state, and the matrix is not zero
C25_Witness ==
  /\ Constructed(acov)
  /\ acov.phase = "steady"
  /\ acov.n_samples = K + 1
  /\ ret = <<acov.current_autocovariation>>
  /\ ret[1] # ZeroMatrix
  /\ acov.past_sample[0] = RVec(log[K + 1])

-----------------------------------------------------------------------------
(* Properties of the concurrent driver                                     *)

Quiescent == \A t \in Threads : pc[t] = "idle"

\* all threads make their calls on the accumulator o
Shared(o) == \A t \in Threads : target[t] = o

\* the number of elements of the sequence s that satisfy in-range for h
RECURSIVE InRangeCount(_, _)
InRangeCount(h, s) ==
  IF s = <<>> THEN 0
  ELSE (IF InRange(h, Head(s)) THEN 1 ELSE 0) + InRangeCount(h, Tail(s))

\* C7 (SpecConc): no lost updates.  Whenever no call is in progress, and so
\* when all threads have made all their calls, the shared accumulator is in
\* the state that the completed consume calls produce when applied one
\* after the other; the sample counters of MeanValue and of
\* Spurious_Autocovariance equal the number of consume calls made, and the
\* Histogram counts sum to the number of in-range samples consumed.
C7_NoLostUpdates ==
  Quiescent =>
    /\ Shared("mean") => (mean = ref["mean"] /\ mean.n_samples = Len(log))
    /\ Shared("hist") =>
         /\ hist = ref["hist"]
         /\ CountSum(Histogram_get(hist)) = InRangeCount(hist, log)
    /\ Shared("acov") => (acov = ref["acov"] /\ acov.n_samples = Len(log))

\* both threads have made all their calls, all of them consume, on an
\* accumulator that had K - 1 samples: the counter is K - 1 + N * M
C7_Witness ==
  /\ Shared("acov")
  /\ Quiescent
  /\ \A t \in Threads : calls[t] = ConcMaxCalls
  /\ acov.n_samples = K - 1 + Cardinality(Threads) * ConcMaxCalls
  /\ acov.phase = "steady"

\* C8 (SpecConc): what a get() returns, also while consume calls run, is the
\* value get() has on a state in which a set of consume calls is applied
\* completely and none in part.
C8_GetSeesWholeCalls ==
  \A t \in Threads : out[t] # <<>> => out[t][1] \in snaps[target[t]]

\* a get() waits for the mutex while a consume call holds it and has
\* recomputed the exported values of some lags only: the matrix as it is
\* now is not one that get() may return
C8_Witness ==
  /\ Shared("acov")
  /\ \E t \in Threads, u \in Threads :
       /\ pc[t] = "g_lock"
       /\ pc[u] = "ac_recompute"
       /\ mutex["acov"] = u
       /\ tmp[u].i > 0
       /\ Spurious_Autocovariance_get(acov) \notin snaps["acov"]

\* the sequence s with its last two elements in the other order
LastTwoSwapped(s) ==
  LET n == Len(s)
  IN  SubSeq(s, 1, n - 2) \o <<s[n], s[n - 1]>>

\* the accumulator after consume() was called with the samples of s in turn
AcovAfter(s) ==
  AcovFold(CHOOSE st \in Spurious_Autocovariance_init : st.junk = acov.junk, s)

\* each of the two threads made one call, a consume; the two samples are the
\* last two of log, in the order in which the calls held the mutex
OneConsumeEach ==
  /\ Shared("acov")
  /\ Quiescent
  /\ \A t \in Threads : calls[t] = 1
  /\ Len(log) \in {2, Len(AcovWarm) + 2}

\* C23 (SpecConc): the state of Spurious_Autocovariance depends on the order
\* in which the mutex serializes concurrent consume calls.  After two
\* threads consumed one sample each, the accumulator is what the samples
\* produce in the order of the calls; had the two calls, with different
\* samples, taken the mutex in the other order, the window would differ,
\* and so would alpha for some lag when samples were consumed before them.
\* (With no sample before them alpha is the same in both orders: x . y is
\* y . x.)
C23_OrderSensitive ==
  (OneConsumeEach /\ log[Len(log)] # log[Len(log) - 1]) =>
    LET other == AcovAfter(LastTwoSwapped(log))
    IN  /\ acov = AcovAfter(log)
        /\ acov.past_sample # other.past_sample
        /\ IF Len(log) > 2
             THEN acov.alpha # other.alpha
             ELSE acov.alpha = other.alpha

\* after the K - 1 samples of AcovWarm one thread consumed (1,2) and the
\* other (3,-1), in this order: the window starts with (3,-1), (1,2), the
\* other order gives a window that starts with (1,2), (3,-1), and alpha of
\* the first lag is not what the other order gives
C23_Witness ==
  /\ OneConsumeEach
  /\ Len(log) = K + 1
  /\ log[K] = <<1, 2>> /\ log[K + 1] = <<3, -1>>
  /\ acov.past_sample[0] = RVec(<<3, -1>>)
  /\ acov.past_sample[1] = RVec(<<1, 2>>)
  /\ LET other == AcovAfter(LastTwoSwapped(log))
     IN  /\ other.past_sample =
              [acov.past_sample EXCEPT ![0] = RVec(<<1, 2>>), ![1] = RVec(<<3, -1>>)]
         /\ other.alpha # acov.alpha
         /\ other.alpha[0] # acov.alpha[0]

\* the positions of a call at which its next statement reads or writes the
\* accumulator's mutable state
AccessesState ==
  {"mc_load", "mc_count", "mc_update", "mg_return",
   "hc_load", "hc_store", "hg_copy",
   "ac_branch", "ac_first", "ac_count", "ac_alphabeta", "ac_shift",
   "ac_mean", "ac_recompute", "ag_return"}

\* the positions at which a call waits for the mutex
WaitsForMutex == {"c_lock", "g_lock"}

\* C15 (SpecMulti): with the threads scheduled fairly, every call of
\* consume or get that was started returns.  A thread that is in no call
\* holds no mutex; the thread a waiting call waits for is inside a call and
\* waits for nothing itself, so no calls wait for each other, whether the
\* threads call one accumulator or several.
C15_CallsComplete ==
  /\ [](\A t \in Threads : pc[t] = "idle" => \A o \in Objects : mutex[o] # t)
  /\ [](\A t \in Threads :
          (pc[t] \in WaitsForMutex /\ mutex[target[t]] # NoThread) =>
            /\ mutex[target[t]] \in Threads \ {t}
            /\ pc[mutex[target[t]]] \in AccessesState)
  /\ \A t \in Threads : (pc[t] # "idle") ~> (pc[t] = "idle")

\* both threads made all their calls on one Histogram and all have returned:
\* the last call of one thread was a get(), three samples were consumed
C15_Witness ==
  /\ Shared("hist")
  /\ Quiescent
  /\ \A t \in Threads : calls[t] = ConcMaxCalls
  /\ \A o \in Objects : mutex[o] = NoThread
  /\ out["t1"] # <<>>
  /\ Len(log) = 2 * ConcMaxCalls - 1

\* C18 (SpecMulti): a thread whose next statement reads or writes the
\* mutable state of an accumulator holds the mutex of that accumulator; so
\* no two threads are at such statements of the same accumulator.
C18_AccessUnderMutex ==
  /\ \A t \in Threads : pc[t] \in AccessesState => mutex[target[t]] = t
  /\ \A t \in Threads : \A u \in Threads \ {t} :
       (pc[t] \in AccessesState /\ pc[u] \in AccessesState) => target[t] # target[u]

\* one thread is about to store a bin count of the Histogram while the
\* other waits for the mutex of the same Histogram
C18_Witness ==
  /\ Shared("hist")
  /\ pc["t1"] = "hc_store"
  /\ mutex["hist"] = "t1"
  /\ pc["t2"] = "c_lock"

=============================================================================
